---- MODULE Spec2Model ----
(***************************************************************************)
(* Model of the kb-pipeline backend: the in-memory job registry and the    *)
(* background pipeline task (api/pipeline_routes.py, pipeline/core.py),    *)
(* the document loader and text unit composer (pipeline/ingest.py), and    *)
(* the shared LLM state with its lock (llm/state.py, llm/client.py,        *)
(* llm/config.py).                                                         *)
(*                                                                         *)
(* Conventions.  A Python Optional is a sequence: None is <<>> and a       *)
(* present value v is <<v>>.  A Python str whose characters matter (a      *)
(* document text, a URL, a model name) is a sequence of one-token strings; *)
(* a message is a sequence of its literal and formatted parts.  A progress *)
(* float p is the integer 100 * p.                                         *)
(***************************************************************************)
EXTENDS Integers, Sequences, FiniteSets, TLC

\* ------------------------------------------------------------------------
\* Bounds of the model
\* ------------------------------------------------------------------------
MaxJobs == 2        \* jobs submitted in one run of the model
MaxDocs == 2        \* documents handed to compose_text_units
MaxLen == 3         \* characters in a document text
MaxChars == 3       \* largest max_chars tried
NumThreads == 2     \* threads calling into the shared LLMState
MaxCalls == 3       \* LLMState calls started in one run of the model
MaxFiles == 3       \* files in a directory handed to load_documents

\* ------------------------------------------------------------------------
\* Python values
\* ------------------------------------------------------------------------
None == <<>>
Some(v) == <<v>>
Val(o) == o[1]

\* Python truthiness of an Optional[str]: None and "" are falsy.
Truthy(o) == o # None /\ Val(o) # <<>>

Min(a, b) == IF a < b THEN a ELSE b

\* str.lower() on the strings the model uses.
Lower(s) ==
    CASE s = "OLLAMA" -> "ollama"
      [] s = "CUSTOM" -> "custom"
      [] s = "Custom" -> "custom"
      [] s = ".TXT" -> ".txt"
      [] s = ".PDF" -> ".pdf"
      [] s = ".Docx" -> ".docx"
      [] OTHER -> s

\* str.rstrip("/") on one part of a string: the part without its trailing
\* "/" characters ("" when nothing is left).
RStripPart(part) ==
    CASE part = "/" -> ""
      [] part = "http://" -> "http:"
      [] part = "https://" -> "https:"
      [] OTHER -> part

\* str.rstrip("/"): drop every trailing "/" character, also those that end
\* the last part left.
RECURSIVE RStripSlash(_)
RStripSlash(s) ==
    IF s = <<>> THEN s
    ELSE LET stripped == RStripPart(s[Len(s)])
             front == SubSeq(s, 1, Len(s) - 1)
         IN IF stripped = "" THEN RStripSlash(front)
            ELSE Append(front, stripped)

\* str.strip() == "": every character is whitespace.
IsBlank(text) == \A i \in 1..Len(text) : text[i] = " "

\* ------------------------------------------------------------------------
\* llm/config.py
\* ------------------------------------------------------------------------
LLMMode == {"ollama", "custom"}

LLMConfig(mode, base_url, model_name) ==
    [mode |-> mode, base_url |-> base_url, model_name |-> model_name]

\* The environment: each variable is an Optional string.
Environ(llm_mode, llm_base_url, llm_model_name, ollama_host) ==
    [LLM_MODE |-> llm_mode, LLM_BASE_URL |-> llm_base_url,
     LLM_MODEL_NAME |-> llm_model_name, OLLAMA_HOST |-> ollama_host]

discover_ollama_endpoint(e) ==
    LET host == e.OLLAMA_HOST IN
    IF Truthy(host)
    THEN IF Val(host)[1] \in {"http://", "https://"}
         THEN host
         ELSE Some(<<"http://">> \o Val(host) \o <<":11434">>)
    ELSE Some(<<"http://", "127.0.0.1", ":11434">>)

default_llm_config(e) ==
    LET mode_str == Lower(IF e.LLM_MODE = None THEN "ollama" ELSE Val(e.LLM_MODE))
        mode == IF mode_str \in LLMMode THEN mode_str ELSE "ollama"
        base_url == IF mode = "ollama" /\ ~Truthy(e.LLM_BASE_URL)
                    THEN discover_ollama_endpoint(e)
                    ELSE e.LLM_BASE_URL
    IN LLMConfig(mode, base_url, e.LLM_MODEL_NAME)

\* ------------------------------------------------------------------------
\* llm/client.py
\* ------------------------------------------------------------------------
\* A call either returns a value or raises an exception with a message.
Return(v) == [raised |-> FALSE, value |-> Some(v), exc |-> <<>>]
Raise(msg) == [raised |-> TRUE, value |-> None, exc |-> msg]

OllamaLLMClient(base_url, model) ==
    [variant |-> "OllamaLLMClient", base_url |-> RStripSlash(base_url), model |-> Some(model)]

CustomLLMClient(base_url, model) ==
    [variant |-> "CustomLLMClient", base_url |-> RStripSlash(base_url), model |-> model]

\* create_llm_client that asks for a model_name in custom mode too.
create_llm_client_model_required(config) ==
    IF ~Truthy(config.base_url)
    THEN Raise(<<"no base_url set.">>)
    ELSE IF ~Truthy(config.model_name)
    THEN Raise(<<"no model_name set.">>)
    ELSE IF config.mode = "ollama"
    THEN Return(OllamaLLMClient(Val(config.base_url), Val(config.model_name)))
    ELSE Return(CustomLLMClient(Val(config.base_url), config.model_name))

create_llm_client(config) ==
    IF config.mode = "ollama"
    THEN IF ~Truthy(config.base_url)
         THEN Raise(<<"OLLAMA mode selected but no base_url set.">>)
         ELSE IF ~Truthy(config.model_name)
         THEN Raise(<<"OLLAMA mode selected but no model_name set.">>)
         ELSE Return(OllamaLLMClient(Val(config.base_url), Val(config.model_name)))
    ELSE IF ~Truthy(config.base_url)
         THEN Raise(<<"CUSTOM LLM mode selected but no base_url set.">>)
         ELSE Return(CustomLLMClient(Val(config.base_url), config.model_name))

\* ------------------------------------------------------------------------
\* pipeline/ingest.py
\* ------------------------------------------------------------------------
SUPPORTED_EXTENSIONS == {".txt", ".pdf", ".docx"}

\* A file of the input tree: its name, its extension as written, whether its
\* reader raises (a corrupt or unreadable file) and the text a reader extracts.
File(name, ext, unreadable, text) ==
    [name |-> name, ext |-> ext, unreadable |-> unreadable, text |-> text]

\* The file system the pipeline runs against: for each path, whether it is a
\* directory and the files under it, listed in no particular order.
Directory(path) ==
    CASE path = "in_docs" ->
           [isdir |-> TRUE,
            files |-> << File("a", ".TXT", FALSE, <<"a", " ", "a">>),
                         File("b", ".pdf", TRUE, <<>>),
                         File("c", ".md", FALSE, <<"a">>),
                         File("d", ".Docx", FALSE, <<" ", " ">>) >>]
      [] path = "in_empty" -> [isdir |-> TRUE, files |-> <<>>]
      [] path = "in_skipped" ->
           [isdir |-> TRUE,
            files |-> << File("b", ".pdf", TRUE, <<>>),
                         File("c", ".md", FALSE, <<"a">>),
                         File("d", ".docx", FALSE, <<" ">>) >>]
      [] path = "in_pair" ->
           [isdir |-> TRUE,
            files |-> << File("a", ".txt", FALSE, <<"a", " ", "a">>),
                         File("e", ".TXT", FALSE, <<"a">>) >>]
      [] OTHER -> [isdir |-> FALSE, files |-> <<>>]

\* os.walk(path): the directory's files in any of the orders the file system
\* may list them.
os_walk(path) ==
    LET files == Directory(path).files
    IN {[i \in 1..Len(files) |-> files[order[i]]] : order \in Permutations(1..Len(files))}

\* A path is the sequence of its parts, each "/" a part of its own.
VARIABLE
    cwd             \* the process's working directory, an absolute path

\* os.getcwd()
getcwd == cwd

\* os.path.isabs: the path starts with "/".
isabs(path) == path # <<>> /\ path[1] = "/"

\* os.path.join(a, b): b alone when it is absolute; otherwise a and b with
\* a "/" between them unless a is empty or already ends with one.
join(a, b) ==
    IF isabs(b) THEN b
    ELSE IF a = <<>> \/ a[Len(a)] = "/" THEN a \o b
    ELSE a \o <<"/">> \o b

\* os.path.abspath(os.path.join(root, name)) for a file of the top directory:
\* the joined path, put under the working directory when it is relative
\* (the paths the model uses hold no ".", ".." or doubled "/" for normpath
\* to remove).
abspath(input_dir, file) ==
    LET full_path == join(input_dir, <<file.name, file.ext>>)
    IN IF isabs(full_path) THEN full_path ELSE join(getcwd, full_path)

_read_file(file) ==
    IF Lower(file.ext) \notin SUPPORTED_EXTENSIONS
    THEN Raise(<<"Unsupported file extension: ", Lower(file.ext)>>)
    ELSE IF file.unreadable
    THEN Raise(<<"cannot read ", file.name>>)
    ELSE Return(file.text)

\* The loop of load_documents over the walked files, from file i on.
RECURSIVE load_files(_, _, _, _, _)
load_files(input_dir, files, i, doc_id, records) ==
    IF i > Len(files) THEN records
    ELSE LET file == files[i]
             ext == Lower(file.ext)
             read == _read_file(file)
         IN IF ext \notin SUPPORTED_EXTENSIONS
            THEN load_files(input_dir, files, i + 1, doc_id, records)
            ELSE IF read.raised
            THEN load_files(input_dir, files, i + 1, doc_id, records)
            ELSE IF IsBlank(Val(read.value))
            THEN load_files(input_dir, files, i + 1, doc_id, records)
            ELSE load_files(input_dir, files, i + 1, doc_id + 1,
                     Append(records,
                         [id |-> <<"doc_", ToString(doc_id)>>,
                          uri |-> abspath(input_dir, file),
                          text |-> Val(read.value),
                          ext |-> ext]))

\* load_documents without the try block around _read_file: the first file
\* whose reader raises ends the scan by its exception.
load_documents_in_uncaught(input_dir, dir) ==
    IF ~dir.isdir
    THEN Raise(<<"Input directory does not exist or is not a directory: ">> \o input_dir)
    ELSE IF \E i \in 1..Len(dir.files) :
                /\ Lower(dir.files[i].ext) \in SUPPORTED_EXTENSIONS
                /\ dir.files[i].unreadable
    THEN Raise(<<"cannot read a file">>)
    ELSE Return(load_files(input_dir, dir.files, 1, 0, <<>>))

load_documents_in(input_dir, dir) ==
    IF ~dir.isdir
    THEN Raise(<<"Input directory does not exist or is not a directory: ">> \o input_dir)
    ELSE Return(load_files(input_dir, dir.files, 1, 0, <<>>))

\* The outcomes load_documents(input_dir) may have, one for each order in
\* which os.walk may yield the files.
load_documents(input_dir) ==
    {load_documents_in(<<input_dir>>, [isdir |-> Directory(input_dir).isdir, files |-> walked]) :
        walked \in os_walk(input_dir)}

\* chunk_loop with the loop condition start + max_chars <= len(text): the
\* final, shorter window is dropped.
RECURSIVE chunk_loop_full_windows(_, _, _)
chunk_loop_full_windows(doc, max_chars, st) ==
    IF st.start + max_chars <= Len(doc.text)
    THEN chunk_loop_full_windows(doc, max_chars,
             [start |-> st.start + max_chars,
              order |-> st.order + 1,
              tu_id |-> st.tu_id + 1,
              rows |-> Append(st.rows,
                  [id |-> <<"tu_", ToString(st.tu_id)>>,
                   document_id |-> doc.id,
                   text |-> SubSeq(doc.text, st.start + 1, st.start + max_chars),
                   order |-> st.order,
                   metadata |-> [document_uri |-> doc.uri]])])
    ELSE st

\* The while loop of compose_text_units over one document's text: st carries
\* the loop variables start, order, tu_id and the rows emitted so far.
RECURSIVE chunk_loop(_, _, _)
chunk_loop(doc, max_chars, st) ==
    IF st.start < Len(doc.text)
    THEN LET chunk == SubSeq(doc.text, st.start + 1,
                             Min(st.start + max_chars, Len(doc.text)))
         IN chunk_loop(doc, max_chars,
                [start |-> st.start + max_chars,
                 order |-> st.order + 1,
                 tu_id |-> st.tu_id + 1,
                 rows |-> Append(st.rows,
                     [id |-> <<"tu_", ToString(st.tu_id)>>,
                      document_id |-> doc.id,
                      text |-> chunk,
                      order |-> st.order,
                      metadata |-> [document_uri |-> doc.uri]])])
    ELSE st

\* compose_loop with tu_id initialised inside the for loop: the ids restart
\* at tu_0 for every document.
RECURSIVE compose_loop_ids_restart(_, _, _, _, _)
compose_loop_ids_restart(docs, max_chars, i, tu_id, rows) ==
    IF i > Len(docs) THEN rows
    ELSE LET st == chunk_loop(docs[i], max_chars,
                       [start |-> 0, order |-> 0, tu_id |-> 0, rows |-> rows])
         IN compose_loop_ids_restart(docs, max_chars, i + 1, st.tu_id, st.rows)

\* The for loop of compose_text_units over the documents, from document i on.
RECURSIVE compose_loop(_, _, _, _, _)
compose_loop(docs, max_chars, i, tu_id, rows) ==
    IF i > Len(docs) THEN rows
    ELSE LET st == chunk_loop(docs[i], max_chars,
                       [start |-> 0, order |-> 0, tu_id |-> tu_id, rows |-> rows])
         IN compose_loop(docs, max_chars, i + 1, st.tu_id, st.rows)

compose_text_units(docs, max_chars) == compose_loop(docs, max_chars, 1, 0, <<>>)

\* ------------------------------------------------------------------------
\* State
\* ------------------------------------------------------------------------
VARIABLES
    env,            \* the process environment (os.getenv)
    now,            \* the clock read by time.time()
    PIPELINE_JOBS,  \* pipeline_routes._PIPELINE_JOBS: job_id -> PipelineStatus
    task,           \* per job: the background task's position and locals
    reported,       \* per job: the (stage, progress) calls made to status_callback
    llm_config,     \* LLMState._config
    llm_client,     \* LLMState._client (Optional)
    llm_error,      \* LLMState._client_error (Optional)
    lock,           \* LLMState._lock: the owning thread, 0 when free
    thread,         \* per thread: the LLMState call in progress and its locals
    calls,          \* number of LLMState calls started
    composed,       \* the text unit composer's inputs and output
    created,        \* create_llm_client's input and outcome
    loader,         \* load_documents' input directory and outcome
    response        \* the last answer of GET /api/pipeline/status/{job_id}

jobVars == <<cwd, env, now, PIPELINE_JOBS, task, reported>>
llmVars == <<llm_config, llm_client, llm_error, lock, thread, calls>>
pureVars == <<composed, created, loader, response>>
vars == <<cwd, env, now, PIPELINE_JOBS, task, reported,
          llm_config, llm_client, llm_error, lock, thread, calls,
          composed, created, loader, response>>

JobIds == 1..MaxJobs
Threads == 1..NumThreads

\* Environments the process may be started in.
EnvEmpty == Environ(None, None, None, None)
EnvOllama == Environ(Some("OLLAMA"), None, Some(<<"llama3">>), Some(<<"h">>))
EnvCustomNoUrl == Environ(Some("custom"), None, None, None)
Envs == {EnvEmpty, EnvOllama, EnvCustomNoUrl}

\* Requests accepted by POST /api/pipeline/run.
InputPaths == {"in_missing", "in_empty", "in_docs"}
RunPipelineRequest == [input_path : InputPaths, indexing_method : {None}]

\* ------------------------------------------------------------------------
\* api/pipeline_routes.py
\* ------------------------------------------------------------------------
PipelineStatus(job_id, status, stage, progress, message, started_at, finished_at) ==
    [job_id |-> job_id, status |-> status, stage |-> stage, progress |-> progress,
     message |-> message, started_at |-> started_at, finished_at |-> finished_at]

\* The locals of a background task that has not been scheduled.
NoTask ==
    [pc |-> "none", input_path |-> "", indexing_method |-> "",
     llm_config |-> None, docs |-> <<>>, tus |-> <<>>,
     upd |-> [stage |-> "", progress |-> 0, message |-> <<>>],
     ret |-> "", exc |-> <<>>]

\* RunPipeline that stores the new record already marked running.
RunPipelineStarted(j, req) ==
    /\ j \notin DOMAIN PIPELINE_JOBS
    /\ j = Cardinality(DOMAIN PIPELINE_JOBS) + 1
    /\ LET status == PipelineStatus(j, "running", Some("queued"), 0,
                                    Some(<<"Job queued">>), now, None)
       IN PIPELINE_JOBS' = [k \in DOMAIN PIPELINE_JOBS \cup {j} |->
                               IF k = j THEN status ELSE PIPELINE_JOBS[k]]
    /\ task' = [task EXCEPT ![j] =
                   [NoTask EXCEPT !.pc = "L49",
                                  !.input_path = req.input_path,
                                  !.indexing_method = "standard"]]
    /\ now' = now + 1
    /\ UNCHANGED <<cwd, env, reported, llmVars, pureVars>>

\* POST /api/pipeline/run: a fresh job_id, the pending record, the scheduled task.
RunPipeline(j, req) ==
    /\ j \notin DOMAIN PIPELINE_JOBS
    /\ j = Cardinality(DOMAIN PIPELINE_JOBS) + 1
    /\ LET status == PipelineStatus(j, "pending", Some("queued"), 0,
                                    Some(<<"Job queued">>), now, None)
       IN PIPELINE_JOBS' = [k \in DOMAIN PIPELINE_JOBS \cup {j} |->
                               IF k = j THEN status ELSE PIPELINE_JOBS[k]]
    /\ task' = [task EXCEPT ![j] =
                   [NoTask EXCEPT !.pc = "L49",
                                  !.input_path = req.input_path,
                                  !.indexing_method =
                                      IF req.indexing_method = None
                                         \/ Val(req.indexing_method) = ""
                                      THEN "standard"
                                      ELSE Val(req.indexing_method)]]
    /\ now' = now + 1
    /\ UNCHANGED <<cwd, env, reported, llmVars, pureVars>>

\* The attribute assignments of _run_pipeline_job, one per line: the field
\* written, the value and the line that follows.  The record in the registry
\* is the object the task mutates, so each assignment is visible at once.
Assign(field, value, next) == [field |-> field, value |-> value, next |-> next]

Statement(pc, t) ==
    CASE pc = "L49" -> Assign("status", "running", "L50")
      [] pc = "L50" -> Assign("stage", Some("initializing"), "L51")
      [] pc = "L51" -> Assign("message",
                              Some(<<"Starting pipeline for input_path=", t.input_path>>),
                              "L52")
      [] pc = "L52" -> Assign("progress", 1, "L57")
      [] pc = "L57" -> Assign("stage", Some("llm_init"), "L58")
      [] pc = "L58" -> Assign("message", Some(<<"Initializing LLM client">>), "L61")
      [] pc = "L65" -> Assign("stage", Some("running_pipeline"), "L66")
      [] pc = "L66" -> Assign("message", Some(<<"Running build_knowledge_base (stub)">>),
                              "L67")
      [] pc = "L67" -> Assign("progress", 10, "K33")
      [] pc = "L81" -> Assign("status", "completed", "L82")
      [] pc = "L82" -> Assign("stage", Some("completed"), "L83")
      [] pc = "L83" -> Assign("progress", 100, "L84")
      [] pc = "L84" -> Assign("message", Some(<<"Pipeline completed successfully">>), "L85")
      [] pc = "L85" -> Assign("finished_at", Some(now), "done")
      [] pc = "L90" -> Assign("status", "failed", "L91")
      [] pc = "L91" -> Assign("stage", Some("error"), "L92")
      [] pc = "L92" -> Assign("message", Some(<<"Pipeline failed: ">> \o t.exc), "L93")
      [] pc = "L93" -> Assign("finished_at", Some(now), "done")

\* One assignment of the task of job j, taken from the lines in pcs.
Execute(j, pcs) ==
    /\ task[j].pc \in pcs
    /\ LET st == Statement(task[j].pc, task[j])
       IN /\ PIPELINE_JOBS' = [PIPELINE_JOBS EXCEPT ![j][st.field] = st.value]
          /\ task' = [task EXCEPT ![j].pc = st.next]
          /\ now' = IF st.field = "finished_at" THEN now + 1 ELSE now
    /\ UNCHANGED <<cwd, env, reported, llmVars, pureVars>>

\* TaskStart without line 49: the task never marks the job running.
TaskStartNotRunning(j) ==
    \/ Execute(j, {"L50", "L51", "L52"})
    \/ /\ task[j].pc = "L49"
       /\ task' = [task EXCEPT ![j].pc = "L50"]
       /\ UNCHANGED <<cwd, env, now, PIPELINE_JOBS, reported, llmVars, pureVars>>

\* Lines 48-53: the task marks its job running.
TaskStart(j) == Execute(j, {"L49", "L50", "L51", "L52"})

\* Lines 57-59.
TaskLLMInit(j) == Execute(j, {"L57", "L58"})

\* TaskCreateClient that ignores a failed construction and goes on to the
\* pipeline.
TaskCreateClientIgnored(j) ==
    /\ task[j].pc = "L61"
    /\ task' = [task EXCEPT ![j].llm_config = Some(default_llm_config(env)),
                            ![j].pc = "L65"]
    /\ UNCHANGED <<cwd, env, now, PIPELINE_JOBS, reported, llmVars, pureVars>>

\* TaskCreateClient outside the try block: a failed construction ends the
\* task without reaching the handler.
TaskCreateClientUncaught(j) ==
    /\ task[j].pc = "L61"
    /\ LET llm_cfg == default_llm_config(env)
           made == create_llm_client(llm_cfg)
       IN task' = [task EXCEPT ![j].llm_config = Some(llm_cfg),
                               ![j].exc = made.exc,
                               ![j].pc = IF made.raised THEN "dead" ELSE "L65"]
    /\ UNCHANGED <<cwd, env, now, PIPELINE_JOBS, reported, llmVars, pureVars>>

\* Lines 61-62: the client is built from the environment's default config; a
\* failure is caught by the handler at line 88.
TaskCreateClient(j) ==
    /\ task[j].pc = "L61"
    /\ LET llm_cfg == default_llm_config(env)
           made == create_llm_client(llm_cfg)
       IN task' = [task EXCEPT ![j].llm_config = Some(llm_cfg),
                               ![j].exc = made.exc,
                               ![j].pc = IF made.raised THEN "L90" ELSE "L65"]
    /\ UNCHANGED <<cwd, env, now, PIPELINE_JOBS, reported, llmVars, pureVars>>

\* TaskPrepare with line 67 reporting more progress than the pipeline's first
\* callback does.
TaskPrepareAhead(j) ==
    \/ Execute(j, {"L65", "L66"})
    \/ /\ task[j].pc = "L67"
       /\ PIPELINE_JOBS' = [PIPELINE_JOBS EXCEPT ![j].progress = 20]
       /\ task' = [task EXCEPT ![j].pc = "K33"]
       /\ UNCHANGED <<cwd, env, now, reported, llmVars, pureVars>>

\* Lines 65-68.
TaskPrepare(j) == Execute(j, {"L65", "L66", "L67"})

\* Lines 80-86: the success path.
TaskComplete(j) == Execute(j, {"L81", "L82", "L83", "L84", "L85"})

\* TaskFail without line 93: the handler never sets finished_at.
TaskFailUnfinished(j) ==
    \/ Execute(j, {"L90", "L91", "L92"})
    \/ /\ task[j].pc = "L93"
       /\ task' = [task EXCEPT ![j].pc = "done"]
       /\ UNCHANGED <<cwd, env, now, PIPELINE_JOBS, reported, llmVars, pureVars>>

\* TaskFail whose line 90 marks every job of the registry failed.
TaskFailAll(j) ==
    \/ Execute(j, {"L91", "L92", "L93"})
    \/ /\ task[j].pc = "L90"
       /\ PIPELINE_JOBS' = [k \in DOMAIN PIPELINE_JOBS |->
                               [PIPELINE_JOBS[k] EXCEPT !.status = "failed"]]
       /\ task' = [task EXCEPT ![j].pc = "L91"]
       /\ UNCHANGED <<cwd, env, now, reported, llmVars, pureVars>>

\* Lines 88-94: the exception handler.
TaskFail(j) == Execute(j, {"L90", "L91", "L92", "L93"})

\* Lines 97-107, entered from the status_callback lambda with the arguments in
\* task[j].upd; after line 106 control returns into build_knowledge_base.
_update_job_status(j) ==
    /\ task[j].pc \in {"L104", "L105", "L106"}
    /\ LET pc == task[j].pc
           u == task[j].upd
       IN /\ PIPELINE_JOBS' =
                 [PIPELINE_JOBS EXCEPT
                     ![j].stage = IF pc = "L104" THEN Some(u.stage) ELSE @,
                     ![j].progress = IF pc = "L105" THEN u.progress ELSE @,
                     ![j].message = IF pc = "L106" THEN Some(u.message) ELSE @]
          /\ task' = [task EXCEPT ![j].pc =
                         CASE pc = "L104" -> "L105"
                           [] pc = "L105" -> "L106"
                           [] pc = "L106" -> task[j].ret]
    /\ UNCHANGED <<cwd, env, now, reported, llmVars, pureVars>>

\* ------------------------------------------------------------------------
\* pipeline/core.py
\* ------------------------------------------------------------------------
Update(stage, progress, message, next) ==
    [stage |-> stage, progress |-> progress, message |-> message, next |-> next]

\* The update(...) calls of build_knowledge_base, by line.
UpdateAt(pc, t) ==
    CASE pc = "K33" -> Update("load_documents", 10,
                              <<"Loading documents from ", t.input_path>>, "K34")
      [] pc = "K37" -> Update("load_documents", 15,
                              <<"No documents found; pipeline will complete with empty KB.">>,
                              "K43")
      [] pc = "K40" -> Update("load_documents", 20,
                              <<"Loaded ", ToString(Len(t.docs)), " documents">>, "K43")
      [] pc = "K43" -> Update("compose_text_units", 25, <<"Composing text units">>, "K44")
      [] pc = "K45" -> Update("compose_text_units", 35,
                              <<"Composed ", ToString(Len(t.tus)), " text units">>, "K48")
      [] pc = "K48" -> Update("extract_graph", 50,
                              <<"Extracting entities/relationships (method=",
                                t.indexing_method, ")">>, "K52")
      [] pc = "K52" -> Update("detect_communities", 70, <<"Detecting communities">>, "K56")
      [] pc = "K56" -> Update("summarize_communities", 85,
                              <<"Generating community reports">>, "K60")
      [] pc = "K60" -> Update("embed_and_store", 95,
                              <<"Generating embeddings and storing in vector/graph DB">>,
                              "K63")
      [] pc = "K63" -> Update("finalizing", 99, <<"Finalizing pipeline">>, "L81")

UpdateLines == {"K33", "K37", "K40", "K43", "K45", "K48", "K52", "K56", "K60", "K63"}

\* Lines 27-30: update() calls the status callback, which enters
\* _update_job_status; its line 101 returns at once for an unknown job.
BkbUpdate(j) ==
    /\ task[j].pc \in UpdateLines
    /\ LET u == UpdateAt(task[j].pc, task[j])
       IN /\ reported' = [reported EXCEPT ![j] =
                             Append(@, [stage |-> u.stage, progress |-> u.progress])]
          /\ task' = [task EXCEPT
                         ![j].upd = [stage |-> u.stage, progress |-> u.progress,
                                     message |-> u.message],
                         ![j].ret = u.next,
                         ![j].pc = IF j \in DOMAIN PIPELINE_JOBS THEN "L104" ELSE u.next]
    /\ UNCHANGED <<cwd, env, now, PIPELINE_JOBS, llmVars, pureVars>>

\* BkbLoadDocuments followed by no callback: lines 36-40 are left out.
BkbLoadDocumentsUnreported(j) ==
    /\ task[j].pc = "K34"
    /\ \E loaded \in load_documents(task[j].input_path) :
          task' = [task EXCEPT
                      ![j].docs = IF loaded.raised THEN <<>> ELSE Val(loaded.value),
                      ![j].exc = loaded.exc,
                      ![j].pc = IF loaded.raised THEN "L90" ELSE "K43"]
    /\ UNCHANGED <<cwd, env, now, PIPELINE_JOBS, reported, llmVars, pureVars>>

\* BkbLoadDocuments that treats an empty result as an error.
BkbLoadDocumentsStopsEmpty(j) ==
    /\ task[j].pc = "K34"
    /\ \E loaded \in load_documents(task[j].input_path) :
       LET failed == loaded.raised \/ Val(loaded.value) = <<>>
       IN task' = [task EXCEPT
                      ![j].docs = IF failed THEN <<>> ELSE Val(loaded.value),
                      ![j].exc = IF loaded.raised THEN loaded.exc
                                 ELSE IF failed THEN <<"No documents found">>
                                 ELSE <<>>,
                      ![j].pc = IF failed THEN "L90" ELSE "K40"]
    /\ UNCHANGED <<cwd, env, now, PIPELINE_JOBS, reported, llmVars, pureVars>>

\* Lines 34-40: load the documents; an exception leaves build_knowledge_base
\* and lands in the task's handler.
BkbLoadDocuments(j) ==
    /\ task[j].pc = "K34"
    /\ \E loaded \in load_documents(task[j].input_path) :
          task' = [task EXCEPT
                      ![j].docs = IF loaded.raised THEN <<>> ELSE Val(loaded.value),
                      ![j].exc = loaded.exc,
                      ![j].pc = IF loaded.raised THEN "L90"
                                ELSE IF Val(loaded.value) = <<>> THEN "K37" ELSE "K40"]
    /\ UNCHANGED <<cwd, env, now, PIPELINE_JOBS, reported, llmVars, pureVars>>

\* compose_text_units is called with max_chars=1200.
PipelineMaxChars == 1200

\* Line 44.
BkbComposeTextUnits(j) ==
    /\ task[j].pc = "K44"
    /\ task' = [task EXCEPT
                   ![j].tus = compose_text_units(task[j].docs, PipelineMaxChars),
                   ![j].pc = "K45"]
    /\ UNCHANGED <<cwd, env, now, PIPELINE_JOBS, reported, llmVars, pureVars>>

\* ------------------------------------------------------------------------
\* Specification of the job registry and the background tasks
\* ------------------------------------------------------------------------
NoStatus ==
    [mode |-> "", base_url |-> None, model_name |-> None,
     client_initialized |-> FALSE, last_error |-> None]

\* The locals of a thread that is not inside an LLMState call.
NoThread ==
    [pc |-> "idle", op |-> "", config |-> LLMConfig("ollama", None, None),
     initialize_client |-> FALSE, read |-> LLMConfig("ollama", None, None),
     made |-> Raise(<<>>), built |-> FALSE, result |-> FALSE, status |-> NoStatus]

NotComposed == [docs |-> <<>>, max_chars |-> 1, called |-> FALSE, units |-> <<>>]
NotCreated == [config |-> LLMConfig("ollama", None, None), called |-> FALSE,
               made |-> Raise(<<>>)]
NotLoaded == [input_dir |-> <<>>, dir |-> [isdir |-> FALSE, files |-> <<>>],
              called |-> FALSE, result |-> Raise(<<>>)]
NoResponse == [job_id |-> 0, code |-> 0, body |-> None]

\* Working directories of the process: the root and a directory below it.
Cwds == {<<"/">>, <<"/", "app">>}

\* The state after start-up in one of the given working directories.
InitIn(dirs) ==
    /\ cwd \in dirs
    /\ env \in Envs
    /\ now = 0
    /\ PIPELINE_JOBS = [k \in {} |-> 0]
    /\ task = [j \in JobIds |-> NoTask]
    /\ reported = [j \in JobIds |-> <<>>]
    /\ llm_config = default_llm_config(env)
    /\ llm_client = None
    /\ llm_error = None
    /\ lock = 0
    /\ thread = [t \in Threads |-> NoThread]
    /\ calls = 0
    /\ composed = NotComposed
    /\ created = NotCreated
    /\ loader = NotLoaded
    /\ response = NoResponse

Init == InitIn({<<"/", "app">>})

Next ==
    \E j \in JobIds :
        \/ \E req \in RunPipelineRequest : RunPipeline(j, req)
        \/ TaskStart(j)
        \/ TaskLLMInit(j)
        \/ TaskCreateClient(j)
        \/ TaskPrepare(j)
        \/ BkbUpdate(j)
        \/ _update_job_status(j)
        \/ BkbLoadDocuments(j)
        \/ BkbComposeTextUnits(j)
        \/ TaskComplete(j)
        \/ TaskFail(j)

Spec == Init /\ [][Next]_vars

\* A step of the background task of job j.
TaskStep(j) ==
    \/ TaskStart(j)
    \/ TaskLLMInit(j)
    \/ TaskCreateClient(j)
    \/ TaskPrepare(j)
    \/ BkbUpdate(j)
    \/ _update_job_status(j)
    \/ BkbLoadDocuments(j)
    \/ BkbComposeTextUnits(j)
    \/ TaskComplete(j)
    \/ TaskFail(j)

\* The threadpool runs every scheduled task: a task that can take a step
\* eventually takes it.
SpecFair == Init /\ [][Next]_vars /\ \A j \in JobIds : WF_vars(TaskStep(j))

\* ------------------------------------------------------------------------
\* Properties of the job registry
\* ------------------------------------------------------------------------
Submitted == DOMAIN PIPELINE_JOBS

\* The task of job j has caught an exception (it is in, or past, its handler).
Raised(j) == task[j].exc # <<>>
HandlerLines == {"L90", "L91", "L92", "L93"}

\* C1: a job's status changes only by pending -> running, running -> completed
\* or running -> failed; every other step leaves it as it is.
StatusMovesForward ==
    [][\A j \in Submitted :
          LET a == PIPELINE_JOBS[j].status
              b == PIPELINE_JOBS'[j].status
          IN a = b \/ <<a, b>> \in {<<"pending", "running">>,
                                     <<"running", "completed">>,
                                     <<"running", "failed">>}]_vars

\* C1 witness: one job has completed and another has failed.
SomeCompletedSomeFailed ==
    \E j, k \in Submitted :
        /\ PIPELINE_JOBS[j].status = "completed"
        /\ PIPELINE_JOBS[k].status = "failed"

\* C2: the progress stored in a job's record never decreases and always lies
\* in [0, 1] (0..100 in hundredths).
ProgressMonotone ==
    /\ [](\A j \in Submitted : PIPELINE_JOBS[j].progress \in 0..100)
    /\ [][\A j \in Submitted :
             PIPELINE_JOBS'[j].progress >= PIPELINE_JOBS[j].progress]_vars

\* C2 witness: a job went through every callback and reached progress 1.0.
FullProgressReached ==
    \E j \in Submitted :
        /\ PIPELINE_JOBS[j].progress = 100
        /\ Len(reported[j]) = 9
        /\ task[j].pc = "done"

\* C9 as stated: once the handler has run, the job is failed, finished_at is
\* set and the job's message is the exception's message itself.
FailureMessageIsException ==
    \A j \in Submitted :
        task[j].pc = "done" /\ Raised(j) =>
            /\ PIPELINE_JOBS[j].status = "failed"
            /\ PIPELINE_JOBS[j].finished_at # None
            /\ PIPELINE_JOBS[j].message = Some(task[j].exc)

\* C9 amended: an exception is caught while the job is running; once the
\* handler has run the job is failed, finished_at is set and the message is
\* "Pipeline failed: " followed by the exception's message; from the moment
\* the exception is caught no stage runs, no callback is invoked and the
\* task only moves through its handler (nothing is retried).
FailureHandling ==
    /\ [](\A j \in Submitted :
            /\ Raised(j) => task[j].pc \in HandlerLines \cup {"done"}
            /\ task[j].pc = "L90" => PIPELINE_JOBS[j].status = "running"
            /\ task[j].pc = "done" /\ Raised(j) =>
                  /\ PIPELINE_JOBS[j].status = "failed"
                  /\ PIPELINE_JOBS[j].finished_at # None
                  /\ PIPELINE_JOBS[j].message =
                         Some(<<"Pipeline failed: ">> \o task[j].exc))
    /\ [][\A j \in Submitted :
             Raised(j) =>
                /\ reported'[j] = reported[j]
                /\ task'[j].docs = task[j].docs
                /\ task'[j].tus = task[j].tus
                /\ task'[j].exc = task[j].exc
                /\ PIPELINE_JOBS'[j].progress = PIPELINE_JOBS[j].progress]_vars

\* C9 witness: load_documents raised after its first callback and the
\* handler has finished.
StageFailureHandled ==
    \E j \in Submitted :
        /\ task[j].pc = "done"
        /\ Raised(j)
        /\ reported[j] # <<>>
        /\ PIPELINE_JOBS[j].status = "failed"

\* C10 as stated: whenever a job is completed, the finalizing stage has been
\* reported, its progress is 1.0 and finished_at is set; a failed job never
\* has progress 1.0.
CompletedIsFinal ==
    \A j \in Submitted :
        /\ PIPELINE_JOBS[j].status = "completed" =>
              /\ \E i \in 1..Len(reported[j]) : reported[j][i].stage = "finalizing"
              /\ PIPELINE_JOBS[j].progress = 100
              /\ PIPELINE_JOBS[j].finished_at # None
        /\ PIPELINE_JOBS[j].status = "failed" => PIPELINE_JOBS[j].progress # 100

Terminal == {"completed", "failed"}

\* C11 as stated: once a job's status is completed or failed, no step changes
\* any field of its record.
TerminalRecordImmutable ==
    [][\A j \in Submitted :
          PIPELINE_JOBS[j].status \in Terminal =>
              /\ j \in DOMAIN PIPELINE_JOBS'
              /\ PIPELINE_JOBS'[j] = PIPELINE_JOBS[j]]_vars

\* C12 as stated: in every state finished_at is unset exactly when the status
\* is pending or running; it is assigned in the step that makes the status
\* terminal and never reassigned.
FinishedAtIffTerminal ==
    /\ [](\A j \in Submitted :
            PIPELINE_JOBS[j].finished_at = None
                <=> PIPELINE_JOBS[j].status \in {"pending", "running"})
    /\ [][\A j \in Submitted :
             PIPELINE_JOBS'[j].finished_at # PIPELINE_JOBS[j].finished_at =>
                /\ PIPELINE_JOBS[j].finished_at = None
                /\ PIPELINE_JOBS[j].status \notin Terminal
                /\ PIPELINE_JOBS'[j].status \in Terminal]_vars

\* C13: under fair scheduling of the background tasks every submitted job
\* eventually has status completed or failed.
JobsTerminate ==
    \A j \in JobIds :
        [](j \in Submitted =>
              <>(j \in Submitted /\ PIPELINE_JOBS[j].status \in Terminal))

\* C13 witness: every job was submitted and every task has finished, one
\* after a stage raised and one after running all stages.
AllJobsFinished ==
    /\ \A j \in JobIds : j \in Submitted /\ task[j].pc = "done"
    /\ \E j \in JobIds : Raised(j) /\ reported[j] # <<>>
    /\ \E j \in JobIds : ~Raised(j) /\ Len(reported[j]) = 9

\* C15: a step that changes the record of job a is a step of a's own task (or
\* a's submission) and leaves every other job's record, task and callbacks
\* unchanged; and once job a has raised, every other job whose task has not
\* finished still has its next step enabled, so a's failure never blocks it.
JobsIsolated ==
    /\ [][\A a \in JobIds :
             LET before == IF a \in Submitted THEN <<PIPELINE_JOBS[a]>> ELSE <<>>
                 after == IF a \in DOMAIN PIPELINE_JOBS'
                          THEN <<PIPELINE_JOBS'[a]>> ELSE <<>>
             IN before # after =>
                   /\ task'[a] # task[a]
                   /\ \A b \in Submitted \ {a} :
                         /\ b \in DOMAIN PIPELINE_JOBS'
                         /\ PIPELINE_JOBS'[b] = PIPELINE_JOBS[b]
                         /\ task'[b] = task[b]
                         /\ reported'[b] = reported[b]]_vars
    /\ [](\A a, b \in Submitted :
            a # b /\ Raised(a) /\ task[b].pc # "done" => ENABLED TaskStep(b))

\* C15 witness: job a has failed in a stage and its handler has finished
\* while job b is in the middle of a progress callback.
FailedBesideRunning ==
    \E a, b \in Submitted :
        /\ a # b
        /\ task[a].pc = "done"
        /\ PIPELINE_JOBS[a].status = "failed"
        /\ reported[a] # <<>>
        /\ PIPELINE_JOBS[b].status = "running"
        /\ task[b].pc = "L105"

\* C16: a job that is not submitted has no record and no task; the record a
\* submission creates (the one the endpoint returns) carries the new job_id,
\* status pending, progress 0 and no finished_at, and stays so until the
\* task's first step; that first step is line 49, which sets running: while
\* the status is pending no client was built, no document loaded and no
\* callback made, and past line 49 the status is no longer pending.
SubmitPendingThenRunning ==
    \A j \in JobIds :
        /\ j \notin Submitted => task[j] = NoTask /\ reported[j] = <<>>
        /\ j \in Submitted =>
              LET r == PIPELINE_JOBS[j] IN
              /\ r.job_id = j
              /\ \A k \in Submitted \ {j} : PIPELINE_JOBS[k].job_id # r.job_id
              /\ task[j].pc = "L49" <=> r.status = "pending"
              /\ r.status = "pending" =>
                    /\ r.progress = 0
                    /\ r.finished_at = None
                    /\ r.stage = Some("queued")
                    /\ task[j].llm_config = None
                    /\ task[j].docs = <<>>
                    /\ task[j].tus = <<>>
                    /\ task[j].exc = <<>>
                    /\ reported[j] = <<>>

\* C16 witness: a job has just been submitted while an earlier job is
\* already past its first step.
PendingBesideStarted ==
    \E j, k \in Submitted :
        /\ PIPELINE_JOBS[j].status = "pending"
        /\ task[j].pc = "L49"
        /\ PIPELINE_JOBS[k].status = "running"
        /\ task[k].pc = "L50"

\* The stages of build_knowledge_base in their fixed order.
StageOrder ==
    <<"load_documents", "compose_text_units", "extract_graph", "detect_communities",
      "summarize_communities", "embed_and_store", "finalizing">>
StageRank(stage) == CHOOSE r \in 1..Len(StageOrder) : StageOrder[r] = stage

\* The task of job j has left build_knowledge_base by its return.
Returned(j) == task[j].pc \in {"L81", "L82", "L83", "L84", "L85", "done"} /\ ~Raised(j)

\* C22: the stages reported to the callback are the seven of the fixed order
\* and none is followed by an earlier one (each callback's stage is at or
\* after the previous callback's); a run that returned has reported
\* each of the seven; and each stage that does work is reported after the
\* work: when load_documents is called one callback has been made and when
\* compose_text_units is called three, while a run that returned has
\* reported load_documents in a callback after the first and
\* compose_text_units in one after the third.
StagesInOrder ==
    \A j \in Submitted :
        LET calls_made == reported[j] IN
        /\ \A i \in 1..Len(calls_made) :
              \E r \in 1..Len(StageOrder) : StageOrder[r] = calls_made[i].stage
        /\ \A i \in 2..Len(calls_made) :
              StageRank(calls_made[i - 1].stage) <= StageRank(calls_made[i].stage)
        /\ task[j].pc = "K34" => Len(calls_made) = 1
        /\ task[j].pc = "K44" => Len(calls_made) = 3
        /\ Returned(j) =>
              /\ \A r \in 1..Len(StageOrder) :
                    \E i \in 1..Len(calls_made) : calls_made[i].stage = StageOrder[r]
              /\ \E i \in 2..Len(calls_made) : calls_made[i].stage = "load_documents"
              /\ \E i \in 4..Len(calls_made) : calls_made[i].stage = "compose_text_units"

\* C22 witness: a run over a directory with documents has returned after
\* loading them, composing their units and reporting nine callbacks.
DocumentsRunReturned ==
    \E j \in Submitted :
        /\ Returned(j)
        /\ task[j].input_path = "in_docs"
        /\ task[j].docs # <<>>
        /\ task[j].tus # <<>>
        /\ Len(reported[j]) = 9

\* The task of job j is at a line of build_knowledge_base or of a callback.
InPipeline(j) ==
    task[j].pc \in UpdateLines \cup {"K34", "K44", "L104", "L105", "L106"}

\* C26: the config a task builds its client from is the environment's
\* default; the task enters build_knowledge_base only after that client was
\* built; when the construction raises, the task goes from line 61 to its
\* handler with the job still running, no callback is ever made, no document
\* is loaded, and the job ends failed.
ClientFailureFailsJob ==
    \A j \in Submitted :
        LET t == task[j]
            made == create_llm_client(default_llm_config(env))
        IN /\ t.llm_config # None => t.llm_config = Some(default_llm_config(env))
           /\ InPipeline(j) \/ reported[j] # <<>> =>
                 t.llm_config # None /\ ~made.raised
           /\ t.llm_config # None /\ made.raised =>
                 /\ t.exc = made.exc
                 /\ t.pc \in HandlerLines \cup {"done"}
                 /\ reported[j] = <<>>
                 /\ t.docs = <<>>
                 /\ t.tus = <<>>
                 /\ t.pc = "L90" => PIPELINE_JOBS[j].status = "running"
                 /\ t.pc = "done" => PIPELINE_JOBS[j].status = "failed"

\* C26 witness: with no model name in the environment a job has failed on
\* the client's construction, without a single callback.
FailedOnClient ==
    \E j \in Submitted :
        /\ env = EnvEmpty
        /\ task[j].pc = "done"
        /\ task[j].exc = <<"OLLAMA mode selected but no model_name set.">>
        /\ reported[j] = <<>>
        /\ PIPELINE_JOBS[j].status = "failed"

\* ------------------------------------------------------------------------
\* Specification of the text unit composer
\* ------------------------------------------------------------------------
Chars == {"a", "b"}
Texts == UNION {[1..n -> Chars] : n \in 0..MaxLen}
TextLists == UNION {[1..n -> Texts] : n \in 0..MaxDocs}

\* The documents frame holding the given texts, with load_documents' ids.
Documents(texts) ==
    [i \in 1..Len(texts) |->
        [id |-> <<"doc_", ToString(i - 1)>>,
         uri |-> <<"/", "app", "/", "in", "/", ToString(i), ".txt">>,
         text |-> texts[i],
         ext |-> ".txt"]]

InitCompose ==
    /\ cwd = <<"/", "app">>
    /\ env = EnvEmpty
    /\ now = 0
    /\ PIPELINE_JOBS = [k \in {} |-> 0]
    /\ task = [j \in JobIds |-> NoTask]
    /\ reported = [j \in JobIds |-> <<>>]
    /\ llm_config = default_llm_config(env)
    /\ llm_client = None
    /\ llm_error = None
    /\ lock = 0
    /\ thread = [t \in Threads |-> NoThread]
    /\ calls = 0
    /\ \E texts \in TextLists, max_chars \in 1..MaxChars :
          composed = [docs |-> Documents(texts), max_chars |-> max_chars,
                      called |-> FALSE, units |-> <<>>]
    /\ created = NotCreated
    /\ loader = NotLoaded
    /\ response = NoResponse

ComposeTextUnits ==
    /\ ~composed.called
    /\ composed' = [composed EXCEPT
                       !.called = TRUE,
                       !.units = compose_text_units(composed.docs, composed.max_chars)]
    /\ UNCHANGED <<jobVars, llmVars, created, loader, response>>

NextCompose == ComposeTextUnits

SpecCompose == InitCompose /\ [][NextCompose]_vars

\* ------------------------------------------------------------------------
\* Properties of the text unit composer
\* ------------------------------------------------------------------------
\* Positions of the units of document d in the composer's output.
UnitsOf(d) == {i \in 1..Len(composed.units) : composed.units[i].document_id = d.id}

\* The texts of d's units with order k, k+1, ..., n-1, concatenated.
RECURSIVE ConcatFrom(_, _, _)
ConcatFrom(d, k, n) ==
    IF k >= n THEN <<>>
    ELSE LET i == CHOOSE i \in UnitsOf(d) : composed.units[i].order = k
         IN composed.units[i].text \o ConcatFrom(d, k + 1, n)

Ceil(a, b) == (a + b - 1) \div b

\* C7: for each document, the units number ceil(len(text)/max_chars), their
\* order values are 0..n-1 and their texts concatenated in that order are the
\* document's text.
ChunkLossless ==
    composed.called =>
        \A x \in 1..Len(composed.docs) :
            LET d == composed.docs[x]
                n == Cardinality(UnitsOf(d))
            IN /\ n = Ceil(Len(d.text), composed.max_chars)
               /\ \A k \in 0..(n - 1) :
                     \E i \in UnitsOf(d) : composed.units[i].order = k
               /\ (\A k \in 0..(n - 1) :
                     \E i \in UnitsOf(d) : composed.units[i].order = k)
                  => ConcatFrom(d, 0, n) = d.text

\* C7 witness: a text that needs a shorter final unit, next to an empty text.
SplitWithRemainder ==
    /\ composed.called
    /\ \E x, y \in 1..Len(composed.docs) :
          /\ composed.docs[x].text = <<>>
          /\ Len(composed.docs[y].text) > composed.max_chars
          /\ Len(composed.docs[y].text) % composed.max_chars # 0

\* Index in the input of the document a unit belongs to.
DocIndex(u) == CHOOSE x \in 1..Len(composed.docs) : composed.docs[x].id = u.document_id

\* C8: units come out in document order; each unit is max_chars long except
\* the last of its document, which has 1..max_chars characters; order counts
\* 0,1,2,... within a document; ids are tu_0, tu_1, ... in emission order and
\* pairwise distinct.
UnitsWellFormed ==
    composed.called =>
        LET units == composed.units
            m == composed.max_chars
        IN /\ \A i \in 1..Len(units) :
                 /\ \E x \in 1..Len(composed.docs) :
                       composed.docs[x].id = units[i].document_id
                 /\ units[i].id = <<"tu_", ToString(i - 1)>>
                 /\ units[i].order =
                       Cardinality({k \in 1..(i - 1) :
                           units[k].document_id = units[i].document_id})
                 /\ Len(units[i].text) \in 1..m
                 /\ (i < Len(units) /\ units[i + 1].document_id = units[i].document_id)
                       => Len(units[i].text) = m
           /\ \A i, k \in 1..Len(units) :
                 /\ i < k => DocIndex(units[i]) <= DocIndex(units[k])
                 /\ i # k => units[i].id # units[k].id

\* C8 witness: two documents each split into more than one unit, the first
\* ending in a shorter unit.
TwoDocumentsSplit ==
    /\ composed.called
    /\ Len(composed.docs) >= 2
    /\ \E i \in 2..Len(composed.units) :
          /\ composed.units[i].order = 0
          /\ composed.units[i - 1].order > 0
          /\ Len(composed.units[i - 1].text) < composed.max_chars
          /\ i < Len(composed.units)
          /\ composed.units[i + 1].order = 1

\* ------------------------------------------------------------------------
\* Specification of the client factory
\* ------------------------------------------------------------------------
UrlParts == {"http://", "h", "/"}
BaseUrls == {None} \cup {Some(u) : u \in UNION {[1..n -> UrlParts] : n \in 0..MaxLen}}
ModelNames == {None, Some(<<>>), Some(<<"m">>)}

InitClient ==
    /\ cwd = <<"/", "app">>
    /\ env = EnvEmpty
    /\ now = 0
    /\ PIPELINE_JOBS = [k \in {} |-> 0]
    /\ task = [j \in JobIds |-> NoTask]
    /\ reported = [j \in JobIds |-> <<>>]
    /\ llm_config = default_llm_config(env)
    /\ llm_client = None
    /\ llm_error = None
    /\ lock = 0
    /\ thread = [t \in Threads |-> NoThread]
    /\ calls = 0
    /\ composed = NotComposed
    /\ loader = NotLoaded
    /\ response = NoResponse
    /\ \E mode \in LLMMode, base_url \in BaseUrls, model_name \in ModelNames :
          created = [NotCreated EXCEPT !.config = LLMConfig(mode, base_url, model_name)]

CreateLLMClient ==
    /\ ~created.called
    /\ created' = [created EXCEPT !.called = TRUE,
                                  !.made = create_llm_client(created.config)]
    /\ UNCHANGED <<jobVars, llmVars, composed, loader, response>>

NextClient == CreateLLMClient

SpecClient == InitClient /\ [][NextClient]_vars

\* A field is missing when it is None or the empty string.
Missing(o) == o = None \/ Val(o) = <<>>

\* C17: create_llm_client raises exactly when base_url is missing, or the
\* mode is ollama and model_name is missing; otherwise it returns the Ollama
\* client for ollama and the custom client for custom, holding the config's
\* model_name.
ClientCreatedIffComplete ==
    created.called =>
        LET c == created.config
            made == created.made
        IN /\ made.raised <=>
                  \/ Missing(c.base_url)
                  \/ c.mode = "ollama" /\ Missing(c.model_name)
           /\ made.raised => made.value = None /\ made.exc # <<>>
           /\ ~made.raised =>
                  /\ Val(made.value).variant =
                         IF c.mode = "ollama" THEN "OllamaLLMClient"
                         ELSE "CustomLLMClient"
                  /\ Val(made.value).model = c.model_name
                  /\ Val(made.value).base_url = RStripSlash(Val(c.base_url))

\* C17 witness: a custom config with a base_url and no model_name got its
\* client.
CustomClientWithoutModel ==
    /\ created.called
    /\ created.config.mode = "custom"
    /\ created.config.model_name = None
    /\ ~created.made.raised
    /\ Val(created.made.value).variant = "CustomLLMClient"

\* ------------------------------------------------------------------------
\* Specification of the document loader
\* ------------------------------------------------------------------------
\* The kinds of file a directory may hold: extension, whether the reader
\* raises, and the text extracted.
FileKinds ==
    {[ext |-> ".txt", unreadable |-> FALSE, text |-> <<"a">>],
     [ext |-> ".TXT", unreadable |-> FALSE, text |-> <<"b", " ">>],
     [ext |-> ".pdf", unreadable |-> TRUE, text |-> <<>>],
     [ext |-> ".md", unreadable |-> FALSE, text |-> <<"a">>],
     [ext |-> ".docx", unreadable |-> FALSE, text |-> <<" ">>],
     [ext |-> ".txt", unreadable |-> FALSE, text |-> <<>>]}
FileLists == UNION {[1..n -> FileKinds] : n \in 0..MaxFiles}

\* Directories handed to load_documents: a relative path, the same with a
\* trailing "/", and an absolute path.
InputDirs == {<<"in">>, <<"in", "/">>, <<"/", "srv", "/", "in">>}

\* The files of the given kinds in the order os.walk yields them, named by
\* their place in the walk.
Files(kinds) ==
    [i \in 1..Len(kinds) |->
        File(ToString(i), kinds[i].ext, kinds[i].unreadable, kinds[i].text)]

InitLoad ==
    /\ cwd \in Cwds
    /\ env = EnvEmpty
    /\ now = 0
    /\ PIPELINE_JOBS = [k \in {} |-> 0]
    /\ task = [j \in JobIds |-> NoTask]
    /\ reported = [j \in JobIds |-> <<>>]
    /\ llm_config = default_llm_config(env)
    /\ llm_client = None
    /\ llm_error = None
    /\ lock = 0
    /\ thread = [t \in Threads |-> NoThread]
    /\ calls = 0
    /\ composed = NotComposed
    /\ created = NotCreated
    /\ response = NoResponse
    /\ \E kinds \in FileLists, isdir \in BOOLEAN, input_dir \in InputDirs :
          loader = [NotLoaded EXCEPT
                       !.input_dir = input_dir,
                       !.dir = [isdir |-> isdir,
                                files |-> IF isdir THEN Files(kinds) ELSE <<>>]]

LoadDocuments ==
    /\ ~loader.called
    /\ loader' = [loader EXCEPT !.called = TRUE,
                                !.result = load_documents_in(loader.input_dir, loader.dir)]
    /\ UNCHANGED <<jobVars, llmVars, composed, created, response>>

NextLoad == LoadDocuments

SpecLoad == InitLoad /\ [][NextLoad]_vars

\* A file load_documents keeps: supported extension, readable, text not blank.
Qualifies(file) ==
    /\ Lower(file.ext) \in SUPPORTED_EXTENSIONS
    /\ ~file.unreadable
    /\ ~IsBlank(file.text)

\* C18: on an existing directory load_documents does not raise, and its
\* result is one document for each file that has a supported extension, a
\* reader that does not raise and a text that is not blank, in walk order,
\* and nothing else; a document's uri is the absolute path of its file,
\* under the working directory when the directory was given by a relative
\* path, and it has no doubled "/".
LoaderSkipsBadFiles ==
    loader.called /\ loader.dir.isdir =>
        /\ ~loader.result.raised
        /\ LET docs == Val(loader.result.value)
               kept == SelectSeq(loader.dir.files, Qualifies)
           IN /\ Len(docs) = Len(kept)
              /\ \A i \in 1..Len(docs) :
                    /\ docs[i].uri =
                           (IF loader.input_dir[1] = "/" THEN <<>>
                            ELSE IF cwd = <<"/">> THEN <<"/">>
                            ELSE cwd \o <<"/">>)
                           \o (IF loader.input_dir = <<"in", "/">> THEN <<"in">>
                               ELSE loader.input_dir)
                           \o <<"/", kept[i].name, kept[i].ext>>
                    /\ docs[i].uri[1] = "/"
                    /\ \A k \in 2..Len(docs[i].uri) :
                          ~(docs[i].uri[k - 1] = "/" /\ docs[i].uri[k] = "/")
                    /\ docs[i].text = kept[i].text
                    /\ docs[i].id = <<"doc_", ToString(i - 1)>>

\* C18 witness: one valid .txt and one corrupt .pdf gave exactly one document.
OneValidOneCorrupt ==
    /\ loader.called
    /\ loader.dir.isdir
    /\ Len(loader.dir.files) = 2
    /\ \E i, k \in 1..2 :
          /\ loader.dir.files[i].ext = ".txt" /\ Qualifies(loader.dir.files[i])
          /\ loader.dir.files[k].ext = ".pdf" /\ loader.dir.files[k].unreadable
    /\ ~loader.result.raised
    /\ Len(Val(loader.result.value)) = 1

\* ------------------------------------------------------------------------
\* llm/state.py
\* ------------------------------------------------------------------------
\* Configs handed to set_config.
CfgCustom == LLMConfig("custom", Some(<<"http://", "c", "/">>), None)
CfgNoModel == LLMConfig("ollama", Some(<<"http://", "h">>), None)
ConfigInputs == {CfgCustom, CfgNoModel}

\* The calls a thread may make on the shared LLMState.
LLMCalls ==
    {[op |-> "set_config", config |-> c, initialize_client |-> b] :
        c \in ConfigInputs, b \in BOOLEAN}
    \cup {[op |-> o, config |-> NoThread.config, initialize_client |-> FALSE] :
        o \in {"refresh_client", "get_status"}}

\* What get_status() returns in the current state (lines 46-52).
get_status ==
    [mode |-> llm_config.mode, base_url |-> llm_config.base_url,
     model_name |-> llm_config.model_name,
     client_initialized |-> llm_client # None, last_error |-> llm_error]

\* A thread enters set_config, refresh_client or get_status.
StartCall(t, call) ==
    /\ thread[t].pc \in {"idle", "done", "raised"}
    /\ calls < MaxCalls
    /\ calls' = calls + 1
    /\ thread' = [thread EXCEPT ![t] =
                     [NoThread EXCEPT
                         !.op = call.op,
                         !.config = call.config,
                         !.initialize_client = call.initialize_client,
                         !.pc = CASE call.op = "set_config" -> "C56"
                                  [] call.op = "refresh_client" -> "G30"
                                  [] call.op = "get_status" -> "S45"]]
    /\ UNCHANGED <<jobVars, llm_config, llm_client, llm_error, lock, pureVars>>

\* The `with self._lock:` lines and the line inside each block they lead to.
AcquireLines == {"C56", "G30", "R79", "R84", "S45"}
AfterAcquire(pc) ==
    CASE pc = "C56" -> "C57"
      [] pc = "G30" -> "G31"
      [] pc = "R79" -> "R80"
      [] pc = "R84" -> "R85"
      [] pc = "S45" -> "S47"

\* The ends of the `with self._lock:` blocks and what follows each.
ReleaseLines == {"C60", "G32", "R82", "R87", "S52"}
AfterRelease(pc) ==
    CASE pc = "C60" -> "C61"
      [] pc = "G32" -> "R70"
      [] pc = "R82" -> "done"
      [] pc = "R87" -> "done"
      [] pc = "S52" -> "done"

\* An acquisition that does not wait for the owner: no mutual exclusion.
AcquireUnguarded(t) == lock' = t

\* RLock.acquire by thread t: waits until no other thread owns the lock.  The
\* code never nests acquisitions, so the owner is all the lock's state.
Acquire(t) == lock \in {0, t} /\ lock' = t

\* Entering a `with self._lock:` block.
LockAcquire(t) ==
    /\ thread[t].pc \in AcquireLines
    /\ Acquire(t)
    /\ thread' = [thread EXCEPT ![t].pc = AfterAcquire(thread[t].pc)]
    /\ UNCHANGED <<jobVars, llm_config, llm_client, llm_error, calls, pureVars>>

\* LockRelease in which get_config keeps the lock when it returns, so the
\* construction that follows runs with the lock held.
LockReleaseAfterCreate(t) ==
    /\ thread[t].pc \in ReleaseLines
    /\ lock' = IF thread[t].pc = "G32" THEN lock ELSE 0
    /\ thread' = [thread EXCEPT
                     ![t].pc = AfterRelease(thread[t].pc),
                     ![t].result = IF thread[t].pc = "R87" THEN TRUE
                                   ELSE IF thread[t].pc = "R82" THEN FALSE
                                   ELSE @]
    /\ UNCHANGED <<jobVars, llm_config, llm_client, llm_error, calls, pureVars>>

\* Leaving a `with self._lock:` block; refresh_client then returns False
\* (line 82) or True (line 93), get_status returns its snapshot.
LockRelease(t) ==
    /\ thread[t].pc \in ReleaseLines
    /\ lock' = 0
    /\ thread' = [thread EXCEPT
                     ![t].pc = AfterRelease(thread[t].pc),
                     ![t].result = IF thread[t].pc = "R87" THEN TRUE
                                   ELSE IF thread[t].pc = "R82" THEN FALSE
                                   ELSE @]
    /\ UNCHANGED <<jobVars, llm_config, llm_client, llm_error, calls, pureVars>>

\* set_config that clears the client and the error but keeps the old config.
SetConfigStoreKeepsConfig(t) ==
    /\ thread[t].pc \in {"C57", "C58", "C59"}
    /\ llm_config' = llm_config
    /\ llm_client' = IF thread[t].pc = "C58" THEN None ELSE llm_client
    /\ llm_error' = IF thread[t].pc = "C59" THEN None ELSE llm_error
    /\ thread' = [thread EXCEPT ![t].pc =
                     CASE thread[t].pc = "C57" -> "C58"
                       [] thread[t].pc = "C58" -> "C59"
                       [] thread[t].pc = "C59" -> "C60"]
    /\ UNCHANGED <<jobVars, lock, calls, pureVars>>

\* set_config, lines 57-59, inside the lock.
SetConfigStore(t) ==
    /\ thread[t].pc \in {"C57", "C58", "C59"}
    /\ llm_config' = IF thread[t].pc = "C57" THEN thread[t].config ELSE llm_config
    /\ llm_client' = IF thread[t].pc = "C58" THEN None ELSE llm_client
    /\ llm_error' = IF thread[t].pc = "C59" THEN None ELSE llm_error
    /\ thread' = [thread EXCEPT ![t].pc =
                     CASE thread[t].pc = "C57" -> "C58"
                       [] thread[t].pc = "C58" -> "C59"
                       [] thread[t].pc = "C59" -> "C60"]
    /\ UNCHANGED <<jobVars, lock, calls, pureVars>>

\* set_config, lines 61-63: call refresh_client, or return True.
SetConfigFinish(t) ==
    /\ thread[t].pc = "C61"
    /\ thread' = [thread EXCEPT
                     ![t].pc = IF thread[t].initialize_client THEN "G30" ELSE "done",
                     ![t].result = IF thread[t].initialize_client THEN @ ELSE TRUE]
    /\ UNCHANGED <<jobVars, llm_config, llm_client, llm_error, lock, calls, pureVars>>

\* get_config, line 31, inside the lock: the copy refresh_client works on.
GetConfigCopy(t) ==
    /\ thread[t].pc = "G31"
    /\ thread' = [thread EXCEPT ![t].read = llm_config, ![t].pc = "G32"]
    /\ UNCHANGED <<jobVars, llm_config, llm_client, llm_error, lock, calls, pureVars>>

\* refresh_client without the except clause: a failed construction leaves
\* the call by an exception.
RefreshCreateUncaught(t) ==
    /\ thread[t].pc = "R70"
    /\ LET made == create_llm_client(thread[t].read)
       IN thread' = [thread EXCEPT
                        ![t].made = made,
                        ![t].built = TRUE,
                        ![t].pc = IF made.raised THEN "raised" ELSE "R84"]
    /\ UNCHANGED <<jobVars, llm_config, llm_client, llm_error, lock, calls, pureVars>>

\* refresh_client, lines 69-78, outside the lock: the construction attempt;
\* an exception is caught at line 71.
RefreshCreate(t) ==
    /\ thread[t].pc = "R70"
    /\ LET made == create_llm_client(thread[t].read)
       IN thread' = [thread EXCEPT
                        ![t].made = made,
                        ![t].built = TRUE,
                        ![t].pc = IF made.raised THEN "R79" ELSE "R84"]
    /\ UNCHANGED <<jobVars, llm_config, llm_client, llm_error, lock, calls, pureVars>>

\* RefreshFail that also puts the environment's default config back.
RefreshFailRollsBack(t) ==
    /\ thread[t].pc \in {"R80", "R81"}
    /\ llm_config' = default_llm_config(env)
    /\ llm_client' = IF thread[t].pc = "R80" THEN None ELSE llm_client
    /\ llm_error' = IF thread[t].pc = "R81" THEN Some(thread[t].made.exc) ELSE llm_error
    /\ thread' = [thread EXCEPT ![t].pc = IF thread[t].pc = "R80" THEN "R81" ELSE "R82"]
    /\ UNCHANGED <<jobVars, lock, calls, pureVars>>

\* refresh_client, lines 80-81, inside the lock: record the failure.
RefreshFail(t) ==
    /\ thread[t].pc \in {"R80", "R81"}
    /\ llm_client' = IF thread[t].pc = "R80" THEN None ELSE llm_client
    /\ llm_error' = IF thread[t].pc = "R81" THEN Some(thread[t].made.exc) ELSE llm_error
    /\ thread' = [thread EXCEPT ![t].pc = IF thread[t].pc = "R80" THEN "R81" ELSE "R82"]
    /\ UNCHANGED <<jobVars, llm_config, lock, calls, pureVars>>

\* RefreshInstall without line 86: the error of an earlier failure stays.
RefreshInstallKeepsError(t) ==
    /\ thread[t].pc \in {"R85", "R86"}
    /\ llm_client' = IF thread[t].pc = "R85" THEN thread[t].made.value ELSE llm_client
    /\ thread' = [thread EXCEPT ![t].pc = IF thread[t].pc = "R85" THEN "R86" ELSE "R87"]
    /\ UNCHANGED <<jobVars, llm_config, llm_error, lock, calls, pureVars>>

\* refresh_client, lines 85-86, inside the lock: install the client.
RefreshInstall(t) ==
    /\ thread[t].pc \in {"R85", "R86"}
    /\ llm_client' = IF thread[t].pc = "R85" THEN thread[t].made.value ELSE llm_client
    /\ llm_error' = IF thread[t].pc = "R86" THEN None ELSE llm_error
    /\ thread' = [thread EXCEPT ![t].pc = IF thread[t].pc = "R85" THEN "R86" ELSE "R87"]
    /\ UNCHANGED <<jobVars, llm_config, lock, calls, pureVars>>

\* get_status, lines 47-51, inside the lock: the snapshot, entry by entry.
GetStatusRead(t) ==
    /\ thread[t].pc \in {"S47", "S48", "S49", "S50", "S51"}
    /\ LET pc == thread[t].pc
       IN thread' = [thread EXCEPT
              ![t].status =
                  CASE pc = "S47" -> [@ EXCEPT !.mode = llm_config.mode]
                    [] pc = "S48" -> [@ EXCEPT !.base_url = llm_config.base_url]
                    [] pc = "S49" -> [@ EXCEPT !.model_name = llm_config.model_name]
                    [] pc = "S50" -> [@ EXCEPT !.client_initialized = llm_client # None]
                    [] pc = "S51" -> [@ EXCEPT !.last_error = llm_error],
              ![t].pc =
                  CASE pc = "S47" -> "S48"
                    [] pc = "S48" -> "S49"
                    [] pc = "S49" -> "S50"
                    [] pc = "S50" -> "S51"
                    [] pc = "S51" -> "S52"]
    /\ UNCHANGED <<jobVars, llm_config, llm_client, llm_error, lock, calls, pureVars>>

\* ------------------------------------------------------------------------
\* Specifications of the shared LLM state: threads calling concurrently, and
\* one caller whose calls do not overlap
\* ------------------------------------------------------------------------
NextLLM ==
    \E t \in Threads :
        \/ \E call \in LLMCalls : StartCall(t, call)
        \/ LockAcquire(t)
        \/ LockRelease(t)
        \/ SetConfigStore(t)
        \/ SetConfigFinish(t)
        \/ GetConfigCopy(t)
        \/ RefreshCreate(t)
        \/ RefreshFail(t)
        \/ RefreshInstall(t)
        \/ GetStatusRead(t)

SpecLLM == Init /\ [][NextLLM]_vars

NextLLMSeq ==
    \E t \in {1} :
        \/ \E call \in LLMCalls : StartCall(t, call)
        \/ LockAcquire(t)
        \/ LockRelease(t)
        \/ SetConfigStore(t)
        \/ SetConfigFinish(t)
        \/ GetConfigCopy(t)
        \/ RefreshCreate(t)
        \/ RefreshFail(t)
        \/ RefreshInstall(t)
        \/ GetStatusRead(t)

SpecLLMSeq == Init /\ [][NextLLMSeq]_vars

\* ------------------------------------------------------------------------
\* Properties of the shared LLM state
\* ------------------------------------------------------------------------
\* Lines inside a `with self._lock:` block.
WriteLines == {"C57", "C58", "C59", "C60", "R80", "R81", "R82", "R85", "R86", "R87"}
BlockLines == WriteLines \cup {"G31", "G32", "S47", "S48", "S49", "S50", "S51", "S52"}

\* No thread is part-way through a block that writes the state: the states
\* a reader holding the lock can see.
NoWriteInProgress == \A t \in Threads : thread[t].pc \notin WriteLines

\* C3: outside the writers' critical sections, an installed client is the
\* one create_llm_client builds from the config the state holds.
ClientMatchesConfig ==
    NoWriteInProgress /\ llm_client # None =>
        create_llm_client(llm_config) = Return(Val(llm_client))

\* C4: when set_config(cfg, initialize_client=True) has returned, get_status()
\* reports cfg's mode, base_url and model_name with client_initialized=True if
\* it returned True, and client_initialized=False with a non-empty last_error
\* if it returned False.
SetConfigReported ==
    \A t \in Threads :
        LET c == thread[t] IN
        c.pc = "done" /\ c.op = "set_config" /\ c.initialize_client =>
            IF c.result
            THEN /\ get_status.mode = c.config.mode
                 /\ get_status.base_url = c.config.base_url
                 /\ get_status.model_name = c.config.model_name
                 /\ get_status.client_initialized
            ELSE /\ ~get_status.client_initialized
                 /\ get_status.last_error # None
                 /\ Val(get_status.last_error) # <<>>

\* C4 witness: set_config(CfgCustom, True) has returned True, after an earlier
\* call on the same state.
SetConfigSucceeded ==
    \E t \in Threads :
        /\ thread[t].pc = "done"
        /\ thread[t].op = "set_config"
        /\ thread[t].initialize_client
        /\ thread[t].result
        /\ thread[t].config = CfgCustom
        /\ calls >= 2

\* C5: at the end of set_config's locked block the state holds the new config,
\* no client and no error; while a thread is inside that block no other thread
\* is inside any locked block (so none reads a half-replaced state); and a
\* set_config with initialize_client=False never attempts a construction,
\* never enters refresh_client and returns True.
SetConfigAtomic ==
    \A t \in Threads :
        LET c == thread[t] IN
        /\ c.pc = "C60" =>
              /\ llm_config = c.config
              /\ llm_client = None
              /\ llm_error = None
        /\ c.pc \in {"C57", "C58", "C59", "C60"} =>
              \A u \in Threads \ {t} : thread[u].pc \notin BlockLines
        /\ c.op = "set_config" /\ ~c.initialize_client =>
              /\ ~c.built
              /\ c.pc \in {"C56", "C57", "C58", "C59", "C60", "C61", "done"}
              /\ c.pc = "done" => c.result

\* C5 witness: a set_config has stored its config while the previous client
\* is still installed, and a get_status on another thread waits for the lock.
SetConfigBlocksReader ==
    \E t, u \in Threads :
        /\ thread[t].pc = "C58"
        /\ llm_config = thread[t].config
        /\ llm_client # None
        /\ thread[u].pc = "S45"

\* C6: no call ends by an exception; at the end of refresh_client's failure
\* block the client is unset and last_error is the exception's message, at the
\* end of its success block the client built is installed and last_error is
\* unset; the call returns False in the first case and True in the second.
RefreshNeverRaises ==
    \A t \in Threads :
        LET c == thread[t] IN
        /\ c.pc # "raised"
        /\ c.pc = "R82" =>
              /\ c.made.raised
              /\ llm_client = None
              /\ llm_error = Some(c.made.exc)
        /\ c.pc = "R87" =>
              /\ ~c.made.raised
              /\ llm_client = c.made.value
              /\ llm_error = None
        /\ c.pc = "done" /\ c.built => c.result = ~c.made.raised

\* C6 witness: a refresh_client whose construction failed has returned False
\* and left its message in last_error.
RefreshFailed ==
    \E t \in Threads :
        /\ thread[t].pc = "done"
        /\ thread[t].op = "refresh_client"
        /\ thread[t].made.raised
        /\ ~thread[t].result
        /\ llm_client = None
        /\ llm_error = Some(thread[t].made.exc)

\* C23: a thread owns the lock only inside a `with self._lock:` block, so not
\* during the construction attempt at line 70; and while a thread is at that
\* line, every other thread waiting at a `with self._lock:` can enter it
\* unless a third thread is inside a block, and every other thread inside a
\* block can take its next step.
LockFreeDuringConstruction ==
    \A t \in Threads :
        /\ lock = t => thread[t].pc \in BlockLines
        /\ thread[t].pc = "R70" =>
              /\ lock # t
              /\ \A u \in Threads \ {t} :
                    /\ thread[u].pc \in AcquireLines /\ lock \in {0, u} =>
                          ENABLED LockAcquire(u)
                    /\ thread[u].pc \in BlockLines =>
                          ENABLED (\/ SetConfigStore(u) \/ GetConfigCopy(u)
                                   \/ RefreshFail(u) \/ RefreshInstall(u)
                                   \/ GetStatusRead(u) \/ LockRelease(u))

\* C23 witness: one thread is at the construction attempt while another is
\* inside get_status's block, reading the state a set_config has stored.
StatusReadDuringConstruction ==
    \E t, u \in Threads :
        /\ thread[t].pc = "R70"
        /\ thread[u].pc = "S51"
        /\ lock = u

\* C24: when set_config(cfg, initialize_client=True) has returned False, its
\* construction raised, the state holds cfg (get_config() returns it), no
\* client is installed and last_error is the exception's message.
FailedConfigKept ==
    \A t \in Threads :
        LET c == thread[t] IN
        c.pc = "done" /\ c.op = "set_config" /\ c.initialize_client /\ ~c.result =>
            /\ c.made.raised
            /\ llm_config = c.config
            /\ c.read = c.config
            /\ llm_client = None
            /\ llm_error = Some(c.made.exc)
            /\ c.made.exc # <<>>

\* C24 witness: set_config(CfgNoModel, True) has returned False on a state
\* that held another config before.
FailedConfigSaved ==
    \E t \in Threads :
        /\ thread[t].pc = "done"
        /\ thread[t].op = "set_config"
        /\ thread[t].initialize_client
        /\ ~thread[t].result
        /\ thread[t].config = CfgNoModel
        /\ llm_config = CfgNoModel
        /\ default_llm_config(env) # CfgNoModel

\* C25: outside the writers' critical sections (the states any reader of the
\* state can see, every accessor taking the lock) a client and a last error
\* are never both present.
ClientExcludesError ==
    NoWriteInProgress => ~(llm_client # None /\ llm_error # None)

\* C25 witness: a refresh_client has installed its client and cleared the
\* error that another thread's failed construction had left.
ClientInstalledAfterFailure ==
    \E t, u \in Threads :
        /\ t # u
        /\ thread[t].pc = "R87"
        /\ llm_client # None
        /\ llm_error = None
        /\ thread[u].pc = "done"
        /\ thread[u].built
        /\ thread[u].made.raised

\* ------------------------------------------------------------------------
\* Specifications of one job: alone, and beside a caller of the LLM state
\* ------------------------------------------------------------------------
AllInputPaths == InputPaths \cup {"in_skipped", "in_pair"}

NextOneJob ==
    \E j \in {1} :
        \/ \E req \in [input_path : AllInputPaths, indexing_method : {None}] :
              RunPipeline(j, req)
        \/ TaskStart(j)
        \/ TaskLLMInit(j)
        \/ TaskCreateClient(j)
        \/ TaskPrepare(j)
        \/ BkbUpdate(j)
        \/ _update_job_status(j)
        \/ BkbLoadDocuments(j)
        \/ BkbComposeTextUnits(j)
        \/ TaskComplete(j)
        \/ TaskFail(j)

\* One job may run in either working directory.
InitOneJob == InitIn(Cwds)

SpecOneJob == InitOneJob /\ [][NextOneJob]_vars

NextShared == NextOneJob \/ NextLLMSeq

SpecShared == InitOneJob /\ [][NextShared]_vars

\* Job ids a client may ask about: those the model can submit and one, 0,
\* that is never in the registry.
QueryIds == 0..MaxJobs

\* get_pipeline_status without the membership test of line 142: the lookup of
\* an unknown job_id raises KeyError, which the server answers with 500.
GetPipelineStatusUnchecked(q) ==
    /\ response' = IF q \in DOMAIN PIPELINE_JOBS
                   THEN [job_id |-> q, code |-> 200, body |-> Some(PIPELINE_JOBS[q])]
                   ELSE [job_id |-> q, code |-> 500, body |-> None]
    /\ UNCHANGED <<jobVars, llmVars, composed, created, loader>>

\* GET /api/pipeline/status/{job_id}, lines 137-144: 404 for a job_id that is
\* not in the registry, else the job's record.
GetPipelineStatus(q) ==
    /\ response' = IF q \notin DOMAIN PIPELINE_JOBS
                   THEN [job_id |-> q, code |-> 404, body |-> None]
                   ELSE [job_id |-> q, code |-> 200, body |-> Some(PIPELINE_JOBS[q])]
    /\ UNCHANGED <<jobVars, llmVars, composed, created, loader>>

NextQuery ==
    \/ NextOneJob
    \/ \E q \in QueryIds : GetPipelineStatus(q)

SpecQuery == InitOneJob /\ [][NextQuery]_vars

\* C21: a step that answers a status query leaves the registry (and every
\* task) unchanged; the answer is 404 without a body when the job_id is not
\* in the registry, and 200 with the job's current record when it is; it is
\* never a server error.
StatusQueryAnswers ==
    [][response' # response =>
          /\ PIPELINE_JOBS' = PIPELINE_JOBS
          /\ task' = task
          /\ reported' = reported
          /\ response'.code \in {200, 404}
          /\ IF response'.job_id \in Submitted
             THEN /\ response'.code = 200
                  /\ response'.body = Some(PIPELINE_JOBS[response'.job_id])
             ELSE /\ response'.code = 404
                  /\ response'.body = None]_vars

\* C21 witness: with a job in the registry and its task under way, a query
\* for a job_id that was never submitted has been answered 404.
UnknownJobNotFound ==
    /\ response.code = 404
    /\ response.job_id \notin Submitted
    /\ \E j \in Submitted : PIPELINE_JOBS[j].status = "running"

\* C14 as stated: the config a task obtains at line 61, and passes to
\* build_knowledge_base, is the config the LLM state holds at that moment
\* (no set_config being part-way through its block).
JobUsesStateConfig ==
    [][\A j \in Submitted :
          /\ task[j].pc = "L61"
          /\ task'[j].pc # "L61"
          /\ NoWriteInProgress
          => task'[j].llm_config = Some(llm_config)]_vars

\* The stage names of a sequence of reported callbacks.
Stages(calls_made) == [i \in 1..Len(calls_made) |-> calls_made[i].stage]

\* C19: for an existing directory none of whose files qualifies,
\* load_documents returns no documents, compose_text_units on them returns no
\* units, and once build_knowledge_base has been entered (its first callback
\* made) nothing raises: it reports load_documents twice, compose_text_units
\* twice, and every later stage through finalizing, and the job completes.
EmptyDirectoryCompletes ==
    \A j \in Submitted :
        LET t == task[j]
            dir == Directory(t.input_path)
        IN dir.isdir /\ SelectSeq(dir.files, Qualifies) = <<>> =>
              /\ load_documents(t.input_path) = {Return(<<>>)}
              /\ \A loaded \in load_documents(t.input_path) :
                    compose_text_units(Val(loaded.value), PipelineMaxChars) = <<>>
              /\ t.docs = <<>>
              /\ t.tus = <<>>
              /\ reported[j] # <<>> => ~Raised(j)
              /\ t.pc \in {"L81", "L82", "L83", "L84", "L85", "done"} /\ ~Raised(j) =>
                    Stages(reported[j]) =
                        <<"load_documents", "load_documents", "compose_text_units",
                          "compose_text_units", "extract_graph", "detect_communities",
                          "summarize_communities", "embed_and_store", "finalizing">>
              /\ t.pc = "done" /\ ~Raised(j) => PIPELINE_JOBS[j].status = "completed"

\* C19 witness: a job over a directory holding only a corrupt, an unsupported
\* and a blank file has run build_knowledge_base to its end and completed.
SkippedDirectoryCompleted ==
    \E j \in Submitted :
        /\ task[j].input_path = "in_skipped"
        /\ task[j].pc = "done"
        /\ Len(reported[j]) = 9
        /\ PIPELINE_JOBS[j].status = "completed"

\* ------------------------------------------------------------------------
\* api/main.py and api/llm_routes.py: the status endpoints
\* ------------------------------------------------------------------------
\* main.py, lines 30-36: the config and client built when the module loads.
LLM_CONFIG == default_llm_config(env)
LLM_CLIENT ==
    LET made == create_llm_client(LLM_CONFIG)
    IN IF made.raised THEN None ELSE made.value

\* GET /health.
health ==
    [status |-> "ok",
     llm_mode |-> LLM_CONFIG.mode,
     llm_base_url |-> LLM_CONFIG.base_url,
     llm_model |-> LLM_CONFIG.model_name,
     llm_client_initialized |-> LLM_CLIENT # None]

\* llm_routes.py, lines 20-26: the module's own config and client.
_current_llm_config == default_llm_config(env)
_current_llm_client ==
    LET made == create_llm_client(_current_llm_config)
    IN IF made.raised THEN None ELSE made.value

\* GET /api/llm/status: the return statement at lines 42-47.
get_llm_status ==
    [mode |-> _current_llm_config.mode,
     base_url |-> _current_llm_config.base_url,
     model_name |-> _current_llm_config.model_name,
     client_initialized |-> _current_llm_client # None]

\* The LLM part of the /health response, under the snapshot's key names.
HealthLLM ==
    [mode |-> health.llm_mode, base_url |-> health.llm_base_url,
     model_name |-> health.llm_model,
     client_initialized |-> health.llm_client_initialized]

SnapshotKeys == {"mode", "base_url", "model_name", "client_initialized", "last_error"}

\* C20 as stated: after any sequence of set_config and refresh_client calls
\* (none in progress), the snapshots of GET /health and GET /api/llm/status
\* have the five keys of get_status() with the values get_status() returns.
EndpointsReportState ==
    calls > 0 /\ (\A t \in Threads : thread[t].pc \in {"idle", "done"}) =>
        \A snapshot \in {HealthLLM, get_llm_status} :
            \A k \in SnapshotKeys :
                k \in DOMAIN snapshot /\ snapshot[k] = get_status[k]

====
